---- MODULE Spec2Model ----
(***************************************************************************)
(* Model of oath_toolkit/wtforms.py: the WTForms validators for one-time   *)
(* passwords (OTPValidator, HOTPValidator, TOTPValidator).                 *)
(*                                                                         *)
(* One validator object is constructed (Init) and then called repeatedly   *)
(* by the form layer.  A call walks through OTPValidator.__call__: the     *)
(* structural checks, then otp_validate of the concrete class, which       *)
(* resolves the secret (get_oath_secret), for TOTP samples the clock, and  *)
(* hands everything to the OATH object; a RuntimeError is turned into a    *)
(* ValidationError, anything else propagates.                              *)
(*                                                                         *)
(* The OATH class (oath_toolkit/__init__.py) and to_bytes                  *)
(* (oath_toolkit/_compat.py) are imported by wtforms.py; hotp_validate,    *)
(* totp_validate, computeCode and to_bytes follow the specification        *)
(* (sections 4.2, 4.3 and 6).                                              *)
(***************************************************************************)
EXTENDS Integers, Sequences, FiniteSets, TLC

\* ------------------------------------------------------------------ bounds
MaxDigits == 2        \* digits ranges over 1..MaxDigits
MaxWindow == 1        \* window ranges over 0..MaxWindow
MaxCounter == 2       \* start_moving_factor ranges over 0..MaxCounter
MaxCalls == 2         \* number of calls of the validator that are explored

\* Python's None and a present value, kept apart from every value
None == <<>>
Some(x) == <<x>>

\* the characters a submitted code is made of
Alphabet == {0, 1}
\* well-formed secrets (keys); 0 stands for a secret the OTP computation rejects
Keys == {1, 2}
MalformedKey == 0
\* clock readings, start times and time step sizes that are explored
Times == {29, 59, 60}
StartTimes == {0, 90}
StepSizes == {None, Some(20), Some(30)}
\* time_step_size: "If set to None, defaults to 30"
DefaultTimeStepSize == 30

RECURSIVE SeqsOfLen(_)
SeqsOfLen(n) ==
    IF n = 0 THEN {<<>>}
    ELSE {Append(s, c) : s \in SeqsOfLen(n - 1), c \in Alphabet}

\* field.data: absent (None), or a str of any length up to one more than the
\* largest digits
FieldData ==
    {None} \cup
    {Some([type |-> "str", chars |-> s]) :
        s \in UNION {SeqsOfLen(n) : n \in 0..(MaxDigits + 1)}}

\* ------------------------------------------------------------- collaborators
\* to_bytes: str or bytes in, bytes out, the content kept
to_bytes(x) == [x EXCEPT !.type = "bytes"]

RECURSIVE Pow(_, _)
Pow(b, e) == IF e = 0 THEN 1 ELSE b * Pow(b, e - 1)

RECURSIVE Encode(_, _)
\* n written with exactly d characters of Alphabet, most significant first
Encode(n, d) ==
    IF d = 0 THEN <<>>
    ELSE Append(Encode(n \div Cardinality(Alphabet), d - 1),
                n % Cardinality(Alphabet))

\* The OTP computation: a keyed function of the counter whose value is a
\* string of exactly `digits` characters.  Nothing makes it injective in the
\* counter: two counters may have the same code.
computeCode(secret, counter, digits) ==
    Encode((secret.key * counter + secret.key)
               % Pow(Cardinality(Alphabet), digits), digits)

RECURSIVE ScanOrder(_)
\* the offsets in the order they are tried: 0, 1, -1, 2, -2, ..., W, -W
ScanOrder(W) == IF W = 0 THEN <<0>> ELSE ScanOrder(W - 1) \o <<W, -W>>

\* the clamp left out: the window reaches below zero
InRange_unclamped(moving_factor, off) == TRUE

\* the counter at offset off of the moving factor is tried only when it is not
\* negative: the lower bound of the window is clamped to zero
InRange(moving_factor, off) == moving_factor + off >= 0

RECURSIVE ScanFrom(_, _, _, _, _)
\* the window scan from position i of the order: first match wins
ScanFrom(order, i, secret, moving_factor, otp) ==
    IF i > Len(order)
    THEN [ok |-> FALSE, offset |-> 0, tried |-> <<>>, detail |-> "invalid OTP"]
    ELSE LET c == moving_factor + order[i] IN
         IF ~InRange(moving_factor, order[i])
         THEN ScanFrom(order, i + 1, secret, moving_factor, otp)
         ELSE IF computeCode(secret, c, Len(otp.chars)) = otp.chars
              THEN [ok |-> TRUE, offset |-> order[i], tried |-> <<c>>,
                    detail |-> ""]
              ELSE LET r == ScanFrom(order, i + 1, secret, moving_factor, otp)
                   IN  [r EXCEPT !.tried = <<c>> \o r.tried]

\* OATH.hotp_validate: the offset of the first match, or a RuntimeError; base
\* is the moving factor the window lies around, tried the counters evaluated
hotp_validate(secret, start_moving_factor, window, otp) ==
    LET r == IF secret.key = MalformedKey
             THEN [ok |-> FALSE, offset |-> 0, tried |-> <<>>,
                   detail |-> "malformed secret"]
             ELSE ScanFrom(ScanOrder(window), 1, secret, start_moving_factor,
                           otp)
    IN  [ok |-> r.ok, offset |-> r.offset, tried |-> r.tried,
         detail |-> r.detail, base |-> start_moving_factor]

\* the time step size the matcher works with: the default when None was handed in
EffectiveStep(time_step_size) ==
    IF time_step_size = None THEN DefaultTimeStepSize ELSE time_step_size[1]

\* the base counter T = floor((now - start_offset) / step); \div rounds toward
\* negative infinity
TimeCounter(now, time_step_size, start_offset) ==
    (now - start_offset) \div EffectiveStep(time_step_size)

\* OATH.totp_validate: the HOTP window scan around the base counter T
totp_validate(secret, now, time_step_size, start_offset, window, otp) ==
    hotp_validate(secret, TimeCounter(now, time_step_size, start_offset),
                  window, otp)

\* ------------------------------------------------------------------- state
VARIABLES
    self,          \* the validator's attributes, set by __init__
    pc,            \* where the current call of the validator is
    calls,         \* how many calls have been started
    data,          \* field.data of the current call
    secret,        \* the secret get_oath_secret returned in this call
    now,           \* the value time.time() returned in this call
    handed,        \* the arguments handed to oath.hotp_validate / totp_validate
    result,        \* what oath.hotp_validate / totp_validate answered
    exc,           \* the exception in flight
    outcome,       \* how __call__ ended
    resolutions,   \* uses of the secret sources in this call
    time_samples,  \* calls of time.time() in this call
    matcher_calls  \* calls of oath.hotp_validate / totp_validate in this call

vars == <<self, pc, calls, data, secret, now, handed, result, exc, outcome,
          resolutions, time_samples, matcher_calls>>

\* ------------------------------------------------------------ construction
\* OTPValidator.__init__
OTPValidator_init(kind, digits, window, verbose_errors, get_secret) ==
    [kind |-> kind, digits |-> digits, window |-> window,
     verbose |-> verbose_errors, get_secret |-> get_secret,
     start_moving_factor |-> None, start_time |-> None,
     time_step_size |-> None]

\* HOTPValidator.__init__
HOTPValidator_init(digits, window, start_moving_factor, verbose_errors, get_secret) ==
    [OTPValidator_init("HOTP", digits, window, verbose_errors, get_secret)
        EXCEPT !.start_moving_factor = Some(start_moving_factor)]

\* TOTPValidator.__init__; time_step_size is stored as given, None included
TOTPValidator_init(digits, window, verbose_errors, get_secret, start_time, time_step_size) ==
    [OTPValidator_init("TOTP", digits, window, verbose_errors, get_secret)
        EXCEPT !.start_time = Some(start_time),
               !.time_step_size = time_step_size]

Validators ==
    {HOTPValidator_init(d, w, m, v, g) :
        d \in 1..MaxDigits, w \in 0..MaxWindow, m \in 0..MaxCounter,
        v \in BOOLEAN, g \in BOOLEAN}
    \cup
    {TOTPValidator_init(d, w, v, g, st, ts) :
        d \in 1..MaxDigits, w \in 0..MaxWindow, v \in BOOLEAN, g \in BOOLEAN,
        st \in StartTimes, ts \in StepSizes}

NoOutcome == [kind |-> "none", reason |-> "", message |-> None,
              value |-> None]
NoResolutions == [get_secret |-> 0, form_user |-> 0]

Init ==
    /\ self \in Validators
    /\ pc = "idle"
    /\ calls = 0
    /\ data = None
    /\ secret = None
    /\ now = None
    /\ handed = None
    /\ result = None
    /\ exc = None
    /\ outcome = NoOutcome
    /\ resolutions = NoResolutions
    /\ time_samples = 0
    /\ matcher_calls = 0

\* ---------------------------------------------------------------- messages
\* the message templates of __call__
generic_error == [text |-> "OTP is invalid.", slot |-> ""]
required_error == [text |-> "Field is required.", slot |-> ""]
digits_error == [text |-> "OTP must be {digits} digits.", slot |-> "digits"]
validating_error == [text |-> "Error validating OTP: {err}", slot |-> "err"]

\* str.format with one keyword argument: the slot of that name is filled, a
\* template without the slot is left as it is
Format(template, key, value) ==
    [text |-> template.text,
     fill |-> IF template.slot = key THEN Some(value) ELSE None]

\* a template used as the message as it is, without str.format
Plain(template) == [text |-> template.text, fill |-> None]

\* raise ValidationError(message)
ValidationError(reason, message) ==
    [kind |-> "ValidationError", reason |-> reason, message |-> Some(message),
     value |-> None]

\* ----------------------------------------------------------------- actions
\* the form layer calls the validator with a field
Call(d) ==
    /\ pc \in {"idle", "done"}
    /\ calls < MaxCalls
    /\ calls' = calls + 1
    /\ data' = d
    /\ pc' = "check"
    /\ secret' = None
    /\ now' = None
    /\ handed' = None
    /\ result' = None
    /\ exc' = None
    /\ outcome' = NoOutcome
    /\ resolutions' = NoResolutions
    /\ time_samples' = 0
    /\ matcher_calls' = 0
    /\ UNCHANGED self

\* `not field.data` mutated to `field.data is None`
Empty_only_None(d) == d = None

\* `not field.data`: None and the empty string are falsy
Empty(d) == d = None \/ Len(d[1].chars) = 0

\* the length test mutated: only a code that is too long is refused
LengthOK_at_most == Len(data[1].chars) <= self.digits

\* the length test of __call__, negated: len(field.data) == self.digits
LengthOK == Len(data[1].chars) = self.digits

\* the message of the length check mutated: formatted with the submitted length
WrongLengthMessage_submitted ==
    Format(IF self.verbose THEN digits_error ELSE generic_error,
           "digits", Len(data[1].chars))

\* the message of the length check
WrongLengthMessage ==
    Format(IF self.verbose THEN digits_error ELSE generic_error,
           "digits", self.digits)

\* __call__, the checks before the try block
StructuralChecks ==
    /\ pc = "check"
    /\ IF Empty(data)
       THEN /\ outcome' = ValidationError("MissingInput",
                                          Plain(required_error))
            /\ pc' = "done"
       ELSE IF ~LengthOK
            THEN /\ outcome' = ValidationError("WrongLength",
                                               WrongLengthMessage)
                 /\ pc' = "done"
            ELSE /\ outcome' = outcome
                 /\ pc' = "otp_validate"
    /\ UNCHANGED <<self, calls, data, secret, now, handed, result, exc,
                   resolutions, time_samples, matcher_calls>>

\* what a secret source can do: return a secret (str or bytes; the key may be
\* one the OTP computation rejects), raise RuntimeError, or raise an exception
\* of another type (AttributeError of form.user, a lookup error, ...)
SecretValues ==
    {[type |-> t, key |-> k] : t \in {"str", "bytes"},
                               k \in Keys \cup {MalformedKey}}
SourceResults ==
    {[kind |-> "value", value |-> s] : s \in SecretValues}
    \cup
    {[kind |-> "raise", type |-> t] : t \in {"RuntimeError", "OtherError"}}

\* get_oath_secret mutated: the `else` is lost, form.user.oath_secret is read
\* after the callback as well
get_oath_secret_no_else(r) ==
    /\ pc = "otp_validate"
    /\ resolutions' =
           [get_secret |-> IF self.get_secret THEN 1 ELSE 0, form_user |-> 1]
    /\ IF r.kind = "value"
       THEN /\ secret' = Some(to_bytes(r.value))
            /\ exc' = exc
            /\ pc' = IF self.kind = "TOTP" THEN "time" ELSE "oath"
       ELSE /\ secret' = secret
            /\ exc' = Some([type |-> r.type, origin |-> "secret",
                            detail |-> "secret lookup failed"])
            /\ pc' = "except"
    /\ UNCHANGED <<self, calls, data, now, handed, result, outcome,
                   time_samples, matcher_calls>>

\* get_oath_secret, the first argument otp_validate evaluates: the callback when
\* one is bound, form.user.oath_secret otherwise, the value through to_bytes
get_oath_secret(r) ==
    /\ pc = "otp_validate"
    /\ resolutions' =
           IF self.get_secret
           THEN [resolutions EXCEPT !.get_secret = @ + 1]
           ELSE [resolutions EXCEPT !.form_user = @ + 1]
    /\ IF r.kind = "value"
       THEN /\ secret' = Some(to_bytes(r.value))
            /\ exc' = exc
            /\ pc' = IF self.kind = "TOTP" THEN "time" ELSE "oath"
       ELSE /\ secret' = secret
            /\ exc' = Some([type |-> r.type, origin |-> "secret",
                            detail |-> "secret lookup failed"])
            /\ pc' = "except"
    /\ UNCHANGED <<self, calls, data, now, handed, result, outcome,
                   time_samples, matcher_calls>>

\* TOTPValidator.otp_validate, its second argument: time.time()
SampleTime(t) ==
    /\ pc = "time"
    /\ now' = Some(t)
    /\ time_samples' = time_samples + 1
    /\ pc' = "oath"
    /\ UNCHANGED <<self, calls, data, secret, handed, result, exc, outcome,
                   resolutions, matcher_calls>>

\* __call__ returns: nothing was raised, and the value returned is None (the
\* matcher's answer is dropped by otp_validate)
Returned == [kind |-> "returned", reason |-> "", message |-> None,
             value |-> None]

\* HOTP_args mutated: start_moving_factor and window change places
HOTP_args_swapped ==
    [secret |-> secret[1],
     start_moving_factor |-> self.window,
     window |-> self.start_moving_factor[1],
     otp |-> to_bytes(data[1])]

\* the arguments HOTPValidator.otp_validate hands to oath.hotp_validate
HOTP_args ==
    [secret |-> secret[1],
     start_moving_factor |-> self.start_moving_factor[1],
     window |-> self.window,
     otp |-> to_bytes(data[1])]

\* TOTP_args mutated: the default step is handed on whatever was configured
TOTP_args_fixed_step ==
    [secret |-> secret[1],
     now |-> now[1],
     time_step_size |-> Some(DefaultTimeStepSize),
     start_offset |-> self.start_time[1],
     window |-> self.window,
     otp |-> to_bytes(data[1])]

\* TOTP_args mutated: the clock reading and start_time change places
TOTP_args_swapped_time ==
    [secret |-> secret[1],
     now |-> self.start_time[1],
     time_step_size |-> self.time_step_size,
     start_offset |-> now[1],
     window |-> self.window,
     otp |-> to_bytes(data[1])]

\* the arguments TOTPValidator.otp_validate hands to oath.totp_validate
TOTP_args ==
    [secret |-> secret[1],
     now |-> now[1],
     time_step_size |-> self.time_step_size,
     start_offset |-> self.start_time[1],
     window |-> self.window,
     otp |-> to_bytes(data[1])]

\* the end of otp_validate: the matcher's answer is not returned; a failure is
\* a RuntimeError in flight
AfterMatcher(args, r) ==
    /\ handed' = Some(args)
    /\ result' = Some(r)
    /\ matcher_calls' = matcher_calls + 1
    /\ IF r.ok
       THEN /\ outcome' = Returned
            /\ exc' = exc
            /\ pc' = "done"
       ELSE /\ outcome' = outcome
            /\ exc' = Some([type |-> "RuntimeError", origin |-> "oath",
                            detail |-> r.detail])
            /\ pc' = "except"
    /\ UNCHANGED <<self, calls, data, secret, now, resolutions, time_samples>>

\* HOTPValidator.otp_validate, the call of oath.hotp_validate
HOTP_otp_validate ==
    /\ pc = "oath"
    /\ self.kind = "HOTP"
    /\ LET a == HOTP_args IN
       AfterMatcher(a, hotp_validate(a.secret, a.start_moving_factor,
                                     a.window, a.otp))

\* TOTPValidator.otp_validate, the call of oath.totp_validate
TOTP_otp_validate ==
    /\ pc = "oath"
    /\ self.kind = "TOTP"
    /\ LET a == TOTP_args IN
       AfterMatcher(a, totp_validate(a.secret, a.now, a.time_step_size,
                                     a.start_offset, a.window, a.otp))

\* the message of the except clause mutated: the detail is shown whatever
\* verbose says
ErrorMessage_always_verbose(e) == Format(validating_error, "err", e.detail)

\* the message of the except clause
ErrorMessage(e) ==
    Format(IF self.verbose THEN validating_error ELSE generic_error,
           "err", e.detail)

\* the except clause mutated: it takes nothing
Caught_nothing(e) == FALSE

\* which exceptions the except clause of __call__ takes
Caught(e) == e.type = "RuntimeError"

\* __call__, the except clause: a RuntimeError becomes a ValidationError, any
\* other exception leaves __call__ as it is
HandleException ==
    /\ pc = "except"
    /\ LET e == exc[1] IN
       IF Caught(e)
       THEN outcome' =
                ValidationError(IF e.detail = "invalid OTP"
                                THEN "NoMatchInWindow" ELSE "UnderlyingError",
                                ErrorMessage(e))
       ELSE outcome' = [kind |-> "raised", reason |-> e.type,
                        message |-> None, value |-> None]
    /\ pc' = "done"
    /\ UNCHANGED <<self, calls, data, secret, now, handed, result, exc,
                   resolutions, time_samples, matcher_calls>>

Next ==
    \/ \E d \in FieldData : Call(d)
    \/ StructuralChecks
    \/ \E r \in SourceResults : get_oath_secret(r)
    \/ \E t \in Times : SampleTime(t)
    \/ HOTP_otp_validate
    \/ TOTP_otp_validate
    \/ HandleException

Spec == Init /\ [][Next]_vars

\* ------------------------------------------------------------------ claims
\* the submitted code is absent or the empty string
NoCode == data = None \/ data[1].chars = <<>>
\* a call is under way or has ended
InCall == calls > 0
\* the current call got past the structural checks
PastChecks == pc \in {"otp_validate", "time", "oath", "except"}
              \/ (pc = "done" /\ outcome.reason \notin {"MissingInput",
                                                         "WrongLength"})
\* the secret sources used once, the one the validator is bound to
ResolvedOnce ==
    resolutions = IF self.get_secret
                  THEN [get_secret |-> 1, form_user |-> 0]
                  ELSE [get_secret |-> 0, form_user |-> 1]
\* get_oath_secret has run in the current call
PastSecret == pc \in {"time", "oath"} \/ (PastChecks /\ exc # None)
              \/ (pc = "done" /\ outcome.kind = "returned")

\* C1: whatever the validator's class, digits, window and verbose, a call with
\* an empty or absent code ends in the MissingInput rejection, and at no point
\* of it is a secret resolved, the clock read or the matcher called.
C1_MissingInput ==
    (InCall /\ NoCode) =>
        /\ pc \in {"check", "done"}
        /\ resolutions = NoResolutions
        /\ secret = None
        /\ time_samples = 0
        /\ matcher_calls = 0
        /\ pc = "done" =>
              /\ outcome.kind = "ValidationError"
              /\ outcome.reason = "MissingInput"

\* C1 witness: a call with the empty string (not None) has been rejected
C1_Witness ==
    /\ pc = "done"
    /\ data # None
    /\ NoCode
    /\ outcome.reason = "MissingInput"

\* C2 as stated: every submitted code whose length differs from digits is
\* rejected as WrongLength (the empty string has length 0, which differs from
\* every digits > 0).
C2_AsStated ==
    (pc = "done" /\ data # None /\ Len(data[1].chars) # self.digits) =>
        /\ outcome.kind = "ValidationError"
        /\ outcome.reason = "WrongLength"

\* C2 amended: every non-empty submitted code whose length differs from digits
\* is rejected as WrongLength whatever its content, before anything is resolved
\* or matched; the message is formatted with the configured digits, which the
\* verbose message shows (never the submitted length), the generic message
\* showing nothing.
C2_WrongLength ==
    (pc = "done" /\ ~NoCode /\ Len(data[1].chars) # self.digits) =>
        /\ outcome.kind = "ValidationError"
        /\ outcome.reason = "WrongLength"
        /\ resolutions = NoResolutions
        /\ matcher_calls = 0
        /\ outcome.message =
               IF self.verbose
               THEN Some([text |-> "OTP must be {digits} digits.",
                          fill |-> Some(self.digits)])
               ELSE Some([text |-> "OTP is invalid.", fill |-> None])

\* C2 witness: a verbose validator refused a code longer than digits
C2_Witness ==
    /\ pc = "done"
    /\ self.verbose
    /\ data # None
    /\ Len(data[1].chars) > self.digits
    /\ outcome.reason = "WrongLength"

\* C3: the secret is resolved, the clock read and the matcher called only in a
\* call whose code is present and exactly digits long; nothing of the kind
\* happens while the structural checks are still to run.
C3_ChecksFirst ==
    /\ (InCall /\ (PastChecks \/ resolutions # NoResolutions
                   \/ time_samples > 0 \/ matcher_calls > 0
                   \/ secret # None \/ handed # None)) =>
           /\ ~NoCode
           /\ Len(data[1].chars) = self.digits
    /\ pc = "check" =>
           /\ resolutions = NoResolutions
           /\ time_samples = 0
           /\ matcher_calls = 0

\* C3 witness: the matcher has been called
C3_Witness == matcher_calls = 1 /\ handed # None

\* C4: in every call that passes the structural checks the secret source the
\* validator is bound to (the get_secret callback, else form.user.oath_secret)
\* is used exactly once and the other one not at all; the validator's
\* attributes never change, so a later call resolves the secret again.
C4_ResolvedOnce ==
    /\ [](InCall =>
            /\ PastSecret => ResolvedOnce
            /\ ~PastSecret => resolutions = NoResolutions
            /\ (pc = "done" /\ PastChecks) => ResolvedOnce)
    /\ [][self' = self]_vars

\* C4 witness: the second call has resolved the secret through the callback
C4_Witness ==
    /\ calls = 2
    /\ pc = "done"
    /\ self.get_secret
    /\ secret # None
    /\ resolutions.get_secret = 1

\* the submitted code, the window and the codes of the current call
Otp == data[1].chars
W == self.window
Code(c) == computeCode(secret[1], c, self.digits)
WellFormed == secret # None /\ secret[1].key # MalformedKey
\* the counters of the window around base, and whether their codes differ
WindowCounters(base) == {c \in (base - W)..(base + W) : c >= 0}
DistinctCodes(base) ==
    \A c1, c2 \in WindowCounters(base) : c1 # c2 => Code(c1) # Code(c2)
\* the matcher has answered in a call of a validator of the kind, the secret
\* being well-formed
Matched(kind) ==
    /\ pc = "done"
    /\ self.kind = kind
    /\ result # None
    /\ WellFormed

CollaboratorFailed ==
    /\ pc = "done"
    /\ exc # None
    /\ exc[1].detail # "invalid OTP"

\* C6 as stated: every failure of a collaborator ends the call with the
\* rejection UnderlyingError; nothing else escapes.
C6_AsStated ==
    CollaboratorFailed =>
        /\ outcome.kind = "ValidationError"
        /\ outcome.reason = "UnderlyingError"

\* C6 amended: a failure a collaborator signals with RuntimeError (the secret
\* source raising it, the OTP computation refusing a malformed secret) ends the
\* call with the rejection UnderlyingError, an ordinary ValidationError; a
\* failure signalled with an exception of any other type is not caught, it
\* leaves __call__ as that exception.
C6_RuntimeErrorWrapped ==
    /\ CollaboratorFailed =>
           IF exc[1].type = "RuntimeError"
           THEN /\ outcome.kind = "ValidationError"
                /\ outcome.reason = "UnderlyingError"
           ELSE /\ outcome.kind = "raised"
                /\ outcome.reason = exc[1].type
    /\ (pc = "done" /\ outcome.kind = "raised") =>
           /\ exc # None
           /\ exc[1].type # "RuntimeError"
           /\ exc[1].origin = "secret"

\* C6 witness: the OTP computation refused the secret and the call ended with
\* UnderlyingError
C6_Witness ==
    /\ CollaboratorFailed
    /\ exc[1].origin = "oath"
    /\ outcome.reason = "UnderlyingError"

\* C7 as stated: what a TOTP validator hands to the matcher as time step size
\* is a positive integer, 30 when time_step_size was left None.
C7_AsStated ==
    (self.kind = "TOTP" /\ handed # None) =>
        /\ handed[1].time_step_size # None
        /\ handed[1].time_step_size[1] > 0
        /\ self.time_step_size = None =>
               handed[1].time_step_size = Some(30)

\* C7 amended: a TOTP validator hands its time_step_size to oath.totp_validate
\* as it was given at construction, None when it was left unset; the step the
\* matcher computes the base counter with is a positive integer, 30 when None
\* was handed in and the configured value otherwise.
C7_TimeStep ==
    (self.kind = "TOTP" /\ handed # None) =>
        LET step == IF self.time_step_size = None
                    THEN 30 ELSE self.time_step_size[1]
        IN
        /\ handed[1].time_step_size = self.time_step_size
        /\ step > 0
        /\ EffectiveStep(handed[1].time_step_size) = step
        /\ result[1].base = (now[1] - self.start_time[1]) \div step

\* C7 witness: the matcher answered for a validator whose time_step_size is None
C7_Witness ==
    /\ self.kind = "TOTP"
    /\ handed # None
    /\ self.time_step_size = None
    /\ result[1].base = 1

\* the base counter of the current call, floor((now - start_time) / step)
T == (now[1] - self.start_time[1])
         \div (IF self.time_step_size = None THEN 30
               ELSE self.time_step_size[1])

\* the worked values of the base counter: start 0, step 30 (or unset): 59
\* gives 1 and 60 gives 2; start 90, step 30: 59 gives -2 and 29 gives -3
\* (rounding toward negative infinity; toward zero would give -1 and -2)
WorkedValues ==
    (self.time_step_size \in {None, Some(30)}) =>
        /\ (self.start_time = Some(0) /\ now = Some(59)) => result[1].base = 1
        /\ (self.start_time = Some(0) /\ now = Some(60)) => result[1].base = 2
        /\ (self.start_time = Some(90) /\ now = Some(59)) => result[1].base = -2
        /\ (self.start_time = Some(90) /\ now = Some(29)) => result[1].base = -3

Tried == {result[1].tried[i] : i \in 1..Len(result[1].tried)}

\* C9: HOTP validation evaluates no negative counter; when
\* start_moving_factor - window is below zero and the whole window is scanned,
\* the lowest counter evaluated is 0 and the counters evaluated are exactly
\* 0 .. start_moving_factor + window.
C9_NoNegativeCounter ==
    (self.kind = "HOTP" /\ result # None) =>
        LET M == self.start_moving_factor[1] IN
        /\ \A c \in Tried : c >= 0 /\ c >= M - W /\ c <= M + W
        /\ (WellFormed /\ ~result[1].ok) => Tried = WindowCounters(M)
        /\ (WellFormed /\ ~result[1].ok /\ M - W < 0) =>
               /\ 0 \in Tried
               /\ Tried = 0..(M + W)

\* C9 witness: moving factor 0 with window 1, the whole window scanned
C9_Witness ==
    /\ self.kind = "HOTP"
    /\ result # None
    /\ self.start_moving_factor = Some(0)
    /\ W = 1
    /\ ~result[1].ok
    /\ Tried = {0, 1}

\* the message the claim gives for a rejection, from verbose and the reason
\* (and the parameters digits and detail)
MessageFor(verbose, reason, digits, detail) ==
    IF reason = "MissingInput"
    THEN [text |-> "Field is required.", fill |-> None]
    ELSE IF ~verbose
    THEN [text |-> "OTP is invalid.", fill |-> None]
    ELSE IF reason = "WrongLength"
    THEN [text |-> "OTP must be {digits} digits.", fill |-> Some(digits)]
    ELSE [text |-> "Error validating OTP: {err}", fill |-> Some(detail)]

\* the decision of a call, from its inputs and the collaborators' answers only
Decision ==
    IF NoCode THEN "MissingInput"
    ELSE IF Len(Otp) # self.digits THEN "WrongLength"
    ELSE IF exc = None THEN "accepted"
    ELSE IF exc[1].type # "RuntimeError" THEN "raised"
    ELSE IF exc[1].origin = "oath" /\ result[1].detail = "invalid OTP"
    THEN "NoMatchInWindow"
    ELSE "UnderlyingError"

\* C10: the message of a rejection is determined by verbose and the reason:
\* MissingInput has its own message whatever verbose is; with verbose false
\* WrongLength, NoMatchInWindow and UnderlyingError all get the generic
\* message; with verbose true WrongLength gets the message filled with digits
\* and UnderlyingError the one filled with the failure's detail.  Whether and
\* why a call is rejected does not depend on verbose.
C10_Messages ==
    pc = "done" =>
        /\ outcome.kind = "ValidationError" =>
              /\ outcome.reason = Decision
              /\ (self.verbose => outcome.reason # "NoMatchInWindow") =>
                    outcome.message =
                        Some(MessageFor(self.verbose, outcome.reason,
                                        self.digits,
                                        IF exc = None THEN ""
                                        ELSE exc[1].detail))
        /\ outcome.kind = "returned" => Decision = "accepted"
        /\ outcome.kind = "raised" => Decision = "raised"

\* C10 witness: a validator that is not verbose rejected with UnderlyingError
\* and the generic message
C10_Witness ==
    /\ pc = "done"
    /\ ~self.verbose
    /\ outcome.reason = "UnderlyingError"
    /\ outcome.message = Some([text |-> "OTP is invalid.", fill |-> None])
====
